---- MODULE Spec2Model ----
(***************************************************************************)
(* Black-box evasion problems of detexe.pea.blackbox: the padding, DOS     *)
(* header, GAMMA raw-append and GAMMA section-injection manipulations, and *)
(* the harvesting of the goodware section corpus.                          *)
(*                                                                         *)
(* A latent component is a rational k / LatDen, stored as its numerator k. *)
(* A file is a sequence of byte values; offset o of a file is element o+1. *)
(***************************************************************************)
EXTENDS Integers, Sequences, FiniteSets, TLC

VARIABLES
    t,                   \* latent vector of the last apply_feasible_manipulations call
    x,                   \* the original sample
    x_adv,               \* the value returned by the last apply_feasible_manipulations
    raised,              \* exception raised by the last call, "" when it returned
    last,                \* the last operation performed
    indexes_to_perturb,  \* self.indexes_to_perturb
    latent_space_size,   \* self.latent_space_size
    optimize_all_dos,    \* self.optimize_all_dos
    section_population,  \* self.section_population / the harvested population
    names_,              \* self.names_
    best_names_,         \* self.best_names_
    fitness_,            \* self.fitness_ : the fitness history
    cand_fit,            \* fitness of every decoded candidate, in decoding order
    population_size,     \* self.population_size
    what_from_who,       \* provenance list returned by the harvesting
    cache_file,          \* content of the cache file, NoFile when it does not exist
    how_many,            \* how_many of the last harvesting call
    folder               \* the files of the goodware folder, in os.listdir order

vars == <<t, x, x_adv, raised, last, indexes_to_perturb, latent_space_size,
          optimize_all_dos, section_population, names_, best_names_, fitness_,
          cand_fit, population_size, what_from_who, cache_file, how_many,
          folder>>

(***************************************************************************)
(* Bounds of the model                                                     *)
(***************************************************************************)
LatDen == 4          \* latent components are multiples of 1 / LatDen
MaxPad == 2          \* largest how_many_padding_bytes
MaxOrig == 2         \* longest original sample of the padding problem
ExtraLen == 6        \* bytes of a header sample after the 64-byte DOS header
MaxCorpus == 2       \* largest number of entries of the section population
MaxRunCorpus == 1    \* largest section population of an optimizer run
MaxCands == 3        \* candidates decoded in one run of the section injection
MaxPop == 2          \* largest population_size
MaxHowMany == 3      \* largest how_many of the corpus harvesting
MaxFiles == 3        \* largest number of files in the goodware folder

\* numerators of the components inside [0,1], and of all components the
\* optimizer may hand over (one step outside each end of [0,1])
InRange == 0..LatDen
Wide == (0 - 1)..(LatDen + 1)

Max(a, b) == IF a >= b THEN a ELSE b
Min(a, b) == IF a <= b THEN a ELSE b

\* list(range(a, b))
Range(a, b) == [i \in 1..Max(b - a, 0) |-> a + i - 1]

\* (v * 255).astype(np.int) of one component v = k / LatDen: the product is
\* truncated toward zero
AsInt(k) ==
    IF 255 * k >= 0 THEN (255 * k) \div LatDen
    ELSE 0 - ((0 - 255 * k) \div LatDen)

byte_values(tt) == [i \in 1..Len(tt) |-> AsInt(tt[i])]

\* int(round(n * (k / LatDen))): Python rounds halves to the even neighbour
Round(n, k) ==
    LET q == (n * k) \div LatDen
        r == (n * k) % LatDen
    IN  IF 2 * r < LatDen THEN q
        ELSE IF 2 * r > LatDen THEN q + 1
        ELSE IF q % 2 = 0 THEN q ELSE q + 1

\* content[:k] of a Python sequence: a negative k counts from the end and
\* both ends are clamped to the sequence
Prefix(content, k) ==
    LET stop == IF k < 0 THEN Max(Len(content) + k, 0) ELSE Min(k, Len(content))
    IN  SubSeq(content, 1, stop)

InUnit(tt) == \A i \in 1..Len(tt) : tt[i] \in InRange

NoFile == <<<<"no file">>>>

(***************************************************************************)
(* CBlackBoxPaddingEvasionProblem                                          *)
(***************************************************************************)
\* byte o of a sample away from the header pointer: "MZ", then filler
Fill(o) == IF o = 0 THEN 77 ELSE IF o = 1 THEN 90 ELSE (37 * o + 11) % 256

\* the samples the padding and raw-append problems are run on
PadSamples == {[i \in 1..n |-> Fill(i - 1)] : n \in 0..MaxOrig}

\* faulty variant: the scaled components rounded instead of truncated
PaddingManipulateRounded(tt, xx) ==
    xx \o [i \in 1..Len(tt) |-> Round(255, tt[i])]

\* apply_feasible_manipulations: x.append(byte_values)
PaddingManipulate(tt, xx) == xx \o byte_values(tt)

PaddingConstruct ==
    /\ \E n \in 0..MaxPad :
         /\ latent_space_size = n
         /\ indexes_to_perturb = Range(0, n)
    /\ x \in PadSamples
    /\ t = <<>>
    /\ x_adv = <<>>
    /\ raised = ""
    /\ last = "__init__"
    /\ optimize_all_dos = FALSE
    /\ section_population = <<>>
    /\ names_ = <<>>
    /\ best_names_ = <<>>
    /\ fitness_ = <<>>
    /\ cand_fit = <<>>
    /\ population_size = 1
    /\ what_from_who = <<>>
    /\ cache_file = NoFile
    /\ how_many = 0
    /\ folder = <<>>

PaddingApply ==
    \E tt \in [1..latent_space_size -> Wide] :
        /\ t' = tt
        /\ x_adv' = PaddingManipulate(tt, x)
        /\ raised' = ""
        /\ last' = "apply_feasible_manipulations"
        /\ UNCHANGED <<x, indexes_to_perturb, latent_space_size, optimize_all_dos,
                       section_population, names_, best_names_, fitness_,
                       cand_fit, population_size, what_from_who, cache_file,
                       how_many, folder>>

PaddingNext == PaddingApply

SpecPadding == PaddingConstruct /\ [][PaddingNext]_vars

\* C3: for a latent vector with every component in [0,1], the padding decode
\* returns the original sample followed by exactly the bytes floor(255 * t_i)
\* in order; the all-zero vector appends zeros and the all-one vector 255s.
PaddingDecode ==
    (last = "apply_feasible_manipulations" /\ InUnit(t)) =>
        /\ Len(x_adv) = Len(x) + Len(t)
        /\ SubSeq(x_adv, 1, Len(x)) = x
        /\ \A i \in 1..Len(t) : x_adv[Len(x) + i] = (255 * t[i]) \div LatDen
        /\ (\A i \in 1..Len(t) : t[i] = 0) =>
               \A i \in 1..Len(t) : x_adv[Len(x) + i] = 0
        /\ (\A i \in 1..Len(t) : t[i] = LatDen) =>
               \A i \in 1..Len(t) : x_adv[Len(x) + i] = 255

PaddingDecodeWitness ==
    /\ last = "apply_feasible_manipulations"
    /\ InUnit(t)
    /\ Len(t) = MaxPad
    /\ Len(x) > 0
    /\ \E i \in 1..Len(t) : t[i] \notin {0, LatDen}
    /\ x_adv = x \o [i \in 1..Len(t) |-> (255 * t[i]) \div LatDen]

(***************************************************************************)
(* CBlackBoxHeaderEvasionProblem                                           *)
(***************************************************************************)
\* a sample of 64 + extra bytes whose offsets 60..63 hold b0, b1, b2, b3
HeaderSample(extra, b0, b1, b2, b3) ==
    [i \in 1..(64 + extra) |->
        IF i = 61 THEN b0
        ELSE IF i = 62 THEN b1
        ELSE IF i = 63 THEN b2
        ELSE IF i = 64 THEN b3
        ELSE Fill(i - 1)]

PtrLow == {0, 2, 64, 66, 64 + ExtraLen, 66 + ExtraLen}
PtrHigh == {0, 1}

HeaderSamples ==
    {HeaderSample(e, b0, b1, 0, 0) :
        e \in {0, ExtraLen}, b0 \in PtrLow, b1 \in PtrHigh}

\* latent vectors handed to the header decode: component i is taken
\* periodically from the numerators of lo..hi
Pattern(d, stride, offset, lo, hi) ==
    [i \in 1..d |-> lo + ((i * stride + offset) % (hi - lo + 1))]

HeaderLatents(d) ==
    {Pattern(d, s, o, 0, LatDen) : s \in {0, 1}, o \in InRange}
        \cup {Pattern(d, s, o, 0 - 1, LatDen + 1) : s \in {0, 1}, o \in {0, 1}}

\* struct.unpack("<I", bytes(x[0, 60:64]))[0]
unpack(xx) == xx[61] + 256 * xx[62] + 65536 * xx[63] + 16777216 * xx[64]

\* faulty variant: the extension starts at the header pointer itself
IndexesFrom60(all_dos, xx) ==
    IF all_dos THEN Range(2, 60) \o Range(60, unpack(xx)) ELSE Range(2, 60)

\* the body of init_starting_point: the index list it leaves
HeaderIndexes(all_dos, xx) ==
    IF all_dos THEN Range(2, 60) \o Range(64, unpack(xx)) ELSE Range(2, 60)

\* the loop of apply_feasible_manipulations: the copy of xx after its first n
\* assignments x_adv[0, idx[i]] = byte_values[i]
RECURSIVE HeaderLoop(_, _, _, _)
HeaderLoop(xx, tt, idx, n) ==
    IF n = 0 THEN xx
    ELSE [HeaderLoop(xx, tt, idx, n - 1) EXCEPT ![idx[n] + 1] = AsInt(tt[n])]

\* apply_feasible_manipulations: <<exception, result>>; the assignment to an
\* index outside the copy raises IndexError and nothing is returned
HeaderManipulate(tt, xx, idx) ==
    IF \E i \in 1..Len(idx) : idx[i] >= Len(xx)
    THEN <<"IndexError", <<>>>>
    ELSE <<"", HeaderLoop(xx, tt, idx, Len(idx))>>

HeaderConstruct ==
    /\ optimize_all_dos \in BOOLEAN
    /\ indexes_to_perturb = Range(2, 60)
    /\ latent_space_size = 58
    /\ x \in HeaderSamples
    /\ t = <<>>
    /\ x_adv = <<>>
    /\ raised = ""
    /\ last = "__init__"
    /\ section_population = <<>>
    /\ names_ = <<>>
    /\ best_names_ = <<>>
    /\ fitness_ = <<>>
    /\ cand_fit = <<>>
    /\ population_size = 1
    /\ what_from_who = <<>>
    /\ cache_file = NoFile
    /\ how_many = 0
    /\ folder = <<>>

HeaderInitStartingPoint ==
    \E xx \in HeaderSamples :
        /\ x' = xx
        /\ indexes_to_perturb' = HeaderIndexes(optimize_all_dos, xx)
        /\ latent_space_size' = Len(indexes_to_perturb')
        /\ t' = <<>>
        /\ x_adv' = <<>>
        /\ raised' = ""
        /\ last' = "init_starting_point"
        /\ UNCHANGED <<optimize_all_dos, section_population, names_, best_names_,
                       fitness_, cand_fit, population_size, what_from_who,
                       cache_file, how_many, folder>>

HeaderApply ==
    \E tt \in HeaderLatents(latent_space_size) :
        LET res == HeaderManipulate(tt, x, indexes_to_perturb)
        IN  /\ t' = tt
            /\ raised' = res[1]
            /\ x_adv' = res[2]
            /\ last' = "apply_feasible_manipulations"
            /\ UNCHANGED <<x, indexes_to_perturb, latent_space_size,
                           optimize_all_dos, section_population, names_,
                           best_names_, fitness_, cand_fit, population_size,
                           what_from_who, cache_file, how_many, folder>>

HeaderNext == HeaderInitStartingPoint \/ HeaderApply

SpecHeader == HeaderConstruct /\ [][HeaderNext]_vars

\* the header pointer P of the current sample
P == x[61] + 256 * x[62] + 65536 * x[63] + 16777216 * x[64]

\* the offsets of [a, b) in increasing order
Interval(a, b) == [i \in 1..Max(b - a, 0) |-> a + i - 1]

\* C4: after init_starting_point, indexes_to_perturb is [2,60) when
\* optimize_all_dos is False, and [2,60) followed by [64,P) when it is True
\* (just [2,60) when P <= 64), whatever an earlier call left; and
\* latent_space_size is the number of indexes.
HeaderIndexSet ==
    last = "init_starting_point" =>
        /\ ~optimize_all_dos => indexes_to_perturb = Interval(2, 60)
        /\ (optimize_all_dos /\ P > 64) =>
               indexes_to_perturb = Interval(2, 60) \o Interval(64, P)
        /\ (optimize_all_dos /\ P <= 64) => indexes_to_perturb = Interval(2, 60)
        /\ latent_space_size = Len(indexes_to_perturb)

HeaderIndexSetWitness ==
    /\ last = "init_starting_point"
    /\ optimize_all_dos
    /\ P > 64
    /\ P <= Len(x)
    /\ latent_space_size = 58 + (P - 64)

\* C8: with optimize_all_dos, init_starting_point never leaves an offset at or
\* beyond the end of the sample in indexes_to_perturb, and a later decode of
\* that sample does not fail on an out-of-file index.
HeaderPointerInBounds ==
    /\ last = "init_starting_point" =>
           \A i \in 1..Len(indexes_to_perturb) : indexes_to_perturb[i] < Len(x)
    /\ last = "apply_feasible_manipulations" => raised = ""

\* C5: the header decode returns a sequence as long as the sample, holding
\* floor(255 * t_i) at the i-th index of indexes_to_perturb and the original
\* byte everywhere else; offsets 0-1 and 60-63 keep their bytes.
HeaderDecodeFrame ==
    (last = "apply_feasible_manipulations" /\ InUnit(t)) =>
        /\ raised = ""
        /\ Len(x_adv) = Len(x)
        /\ \A i \in 1..Len(indexes_to_perturb) :
               x_adv[indexes_to_perturb[i] + 1] = (255 * t[i]) \div LatDen
        /\ \A o \in 0..(Len(x) - 1) :
               (\A i \in 1..Len(indexes_to_perturb) : indexes_to_perturb[i] # o)
                   => x_adv[o + 1] = x[o + 1]
        /\ \A o \in {0, 1, 60, 61, 62, 63} : x_adv[o + 1] = x[o + 1]

(***************************************************************************)
(* CGammaEvasionProblem: raw append of goodware section prefixes           *)
(***************************************************************************)
\* entry i of the section population: i + 1 bytes, distinct over the corpus
Content(i) == [j \in 1..(i + 1) |-> 16 * i + j]

Corpus(d) == [i \in 1..d |-> Content(i)]

\* faulty variant: the prefix length floored instead of rounded
content_to_append_floor(content, ti) ==
    Prefix(content, (Len(content) * ti) \div LatDen)

\* content[: int(round(len(content) * t[i]))]
content_to_append(content, ti) == Prefix(content, Round(Len(content), ti))

\* the loop of apply_feasible_manipulations: x_adv after appending the
\* prefixes of the first n entries
RECURSIVE GammaLoop(_, _, _, _)
GammaLoop(xx, tt, pop, n) ==
    IF n = 0 THEN xx
    ELSE GammaLoop(xx, tt, pop, n - 1) \o content_to_append(pop[n], tt[n])

GammaManipulate(tt, xx, pop) == GammaLoop(xx, tt, pop, Len(tt))

GammaConstruct ==
    /\ \E d \in 0..MaxCorpus :
         /\ section_population = Corpus(d)
         /\ latent_space_size = d
    /\ x \in PadSamples
    /\ t = <<>>
    /\ x_adv = <<>>
    /\ raised = ""
    /\ last = "__init__"
    /\ indexes_to_perturb = <<>>
    /\ optimize_all_dos = FALSE
    /\ names_ = <<>>
    /\ best_names_ = <<>>
    /\ fitness_ = <<>>
    /\ cand_fit = <<>>
    /\ population_size = 1
    /\ what_from_who = <<>>
    /\ cache_file = NoFile
    /\ how_many = 0
    /\ folder = <<>>

GammaApply ==
    \E tt \in [1..latent_space_size -> Wide] :
        /\ t' = tt
        /\ x_adv' = GammaManipulate(tt, x, section_population)
        /\ raised' = ""
        /\ last' = "apply_feasible_manipulations"
        /\ UNCHANGED <<x, indexes_to_perturb, latent_space_size, optimize_all_dos,
                       section_population, names_, best_names_, fitness_,
                       cand_fit, population_size, what_from_who, cache_file,
                       how_many, folder>>

GammaNext == GammaApply

SpecGamma == GammaConstruct /\ [][GammaNext]_vars

\* the integer nearest to n * k / LatDen, the even one of two equally near
Nearest(n, k) ==
    CHOOSE m \in 0..n :
        /\ 2 * (LatDen * m - n * k) <= LatDen
        /\ 2 * (n * k - LatDen * m) <= LatDen
        /\ (2 * (LatDen * m - n * k) \in {LatDen, 0 - LatDen}) => m % 2 = 0

take(i) == Nearest(Len(section_population[i]), t[i])

RECURSIVE SumTake(_)
SumTake(n) == IF n = 0 THEN 0 ELSE SumTake(n - 1) + take(n)

\* C6: for a latent vector inside [0,1], the raw-append decode returns the
\* original followed, in corpus order, by the first take_i =
\* round(len(content_i) * t_i) bytes of every entry, so its size is
\* len(x) + the sum of the take_i and never below the original size.
GammaRawAppendSize ==
    (last = "apply_feasible_manipulations" /\ InUnit(t)) =>
        /\ Len(x_adv) = Len(x) + SumTake(Len(t))
        /\ Len(x_adv) >= Len(x)
        /\ SubSeq(x_adv, 1, Len(x)) = x
        /\ \A i \in 1..Len(t) :
               SubSeq(x_adv, Len(x) + SumTake(i - 1) + 1, Len(x) + SumTake(i))
                   = SubSeq(section_population[i], 1, take(i))

GammaRawAppendSizeWitness ==
    /\ last = "apply_feasible_manipulations"
    /\ InUnit(t)
    /\ Len(t) = MaxCorpus
    /\ Len(x) > 0
    /\ \E i \in 1..Len(t) :
           /\ (Len(section_population[i]) * t[i]) % LatDen # 0
           /\ take(i) > 0
           /\ take(i) < Len(section_population[i])
    /\ Len(x_adv) = Len(x) + SumTake(Len(t))

\* the numerator of the component of [0,1] nearest to k / LatDen
Clamp(k) == IF k < 0 THEN 0 ELSE IF k > LatDen THEN LatDen ELSE k

\* C9: a latent component below 0 or above 1 is clamped before decoding, so
\* every decoded byte of the padding and header decoders lies in [0,255],
\* every take_i of the section decoders lies in [0, len(content_i)] (the
\* decode of a component outside [0,1] equals that of the nearer end of
\* [0,1]), and no decode fails.
OutOfRangeClamped ==
    last = "apply_feasible_manipulations" =>
        /\ raised = ""
        /\ section_population = <<>> =>
               \A i \in 1..Len(t) :
                   /\ AsInt(t[i]) \in 0..255
                   /\ AsInt(t[i]) = AsInt(Clamp(t[i]))
        /\ section_population # <<>> =>
               \A i \in 1..Len(t) :
                   /\ Round(Len(section_population[i]), t[i])
                          \in 0..Len(section_population[i])
                   /\ content_to_append(section_population[i], t[i])
                          = content_to_append(section_population[i], Clamp(t[i]))

(***************************************************************************)
(* CGammaSectionsEvasionProblem: injection of registered sections          *)
(*                                                                         *)
(* lief is not part of the repository: the binary Builder.build() returns  *)
(* is kept as the uninterpreted pair of the sample handed to lief.PE.parse *)
(* and the sections handed to add_section, in call order.  The fitness     *)
(* history is the engine's: entry 1 is the unperturbed baseline (index 0   *)
(* of fitness_), every later entry the best fitness of one generation of   *)
(* population_size candidates.                                             *)
(***************************************************************************)
Section(name, content) == [name |-> name, content |-> content]

\* the samples a run of the section injection starts from
SectionSamples == {HeaderSample(e, 64, 0, 0, 0) : e \in {0, ExtraLen}}

\* the names random.choice can produce
NameSet == {"aaaaaaaa", "bbbbbbbb"}

\* the fitness values the engine computes: a better and a worse one
Fit == {1, 2}

\* int(np.argmin(seq)): index, from 0, of the first smallest element
argmin(seq) ==
    (CHOOSE i \in 1..Len(seq) :
        /\ \A j \in 1..Len(seq) : seq[i] <= seq[j]
        /\ \A j \in 1..(i - 1) : seq[j] > seq[i]) - 1

\* faulty variant: a fresh name whatever best_names_ holds
section_name_fresh(best, rnd, i) == rnd[i]

\* the name given to section i: the recorded best name once there is one,
\* else the freshly drawn name rnd[i]
section_name(best, rnd, i) == IF best # <<>> THEN best[i] ELSE rnd[i]

\* the loop of apply_feasible_manipulations, its first n rounds:
\* <<names, the sections handed to lief_adv.add_section>>
RECURSIVE SectionsLoop(_, _, _, _, _)
SectionsLoop(tt, pop, best, rnd, n) ==
    IF n = 0 THEN <<<<>>, <<>>>>
    ELSE LET before == SectionsLoop(tt, pop, best, rnd, n - 1)
             name == section_name(best, rnd, n)
         IN  <<Append(before[1], name),
               Append(before[2],
                      Section(name, content_to_append(pop[n], tt[n])))>>

\* builder.get_build() of the sample parsed from xx with the sections added
\* registered on it: lief's function of the two, left uninterpreted
Built(xx, added) == [parsed |-> xx, added |-> added]

\* the best fitness of the generation that ends with candidate number n
GenerationBest(fits, pop_size, n) ==
    LET members == (n - pop_size + 1)..n
    IN  CHOOSE f \in {fits[j] : j \in members} :
            \A j \in members : f <= fits[j]

SectionsConstruct ==
    /\ \E d \in 1..MaxRunCorpus :
         /\ section_population = Corpus(d)
         /\ latent_space_size = d
    /\ population_size \in 1..MaxPop
    /\ x \in SectionSamples
    /\ names_ = <<>>
    /\ best_names_ = <<>>
    /\ fitness_ = <<>>
    /\ cand_fit = <<>>
    /\ t = <<>>
    /\ x_adv = <<>>
    /\ raised = ""
    /\ last = "__init__"
    /\ indexes_to_perturb = <<>>
    /\ optimize_all_dos = FALSE
    /\ what_from_who = <<>>
    /\ cache_file = NoFile
    /\ how_many = 0
    /\ folder = <<>>

\* init_starting_point: the base class starts a run with empty histories
SectionsInitStartingPoint ==
    \E xx \in SectionSamples :
        /\ x' = xx
        /\ fitness_' = <<>>
        /\ cand_fit' = <<>>
        /\ best_names_' = <<>>
        /\ names_' = <<>>
        /\ t' = <<>>
        /\ x_adv' = <<>>
        /\ raised' = ""
        /\ last' = "init_starting_point"
        /\ UNCHANGED <<indexes_to_perturb, latent_space_size, optimize_all_dos,
                       section_population, population_size, what_from_who,
                       cache_file, how_many, folder>>

\* the engine scores the unperturbed sample: generation 0 of the history
ScoreBaseline ==
    /\ fitness_ = <<>>
    /\ \E f \in Fit : fitness_' = <<f>>
    /\ last' = "score_baseline"
    /\ UNCHANGED <<t, x, x_adv, raised, indexes_to_perturb, latent_space_size,
                   optimize_all_dos, section_population, names_, best_names_,
                   cand_fit, population_size, what_from_who, cache_file,
                   how_many, folder>>

\* apply_feasible_manipulations(tt, x), drawing the names rnd
SectionsApply(tt, rnd) ==
    LET res == SectionsLoop(tt, section_population, best_names_, rnd,
                            latent_space_size)
    IN  /\ t' = tt
        /\ names_' = Append(names_, res[1])
        /\ x_adv' = Built(x, res[2])
        /\ raised' = ""
        /\ last' = "apply_feasible_manipulations"

\* the latent vectors the optimizer proposes in a run
RunLatents(d) == {Pattern(d, 0, 0, 0, LatDen), Pattern(d, 1, 0, 0, LatDen)}

\* the engine decodes and scores one candidate; the candidate that completes
\* a generation makes the engine record the generation's best fitness
EvaluateCandidate ==
    /\ fitness_ # <<>>
    /\ Len(names_) < MaxCands
    /\ \E tt \in RunLatents(latent_space_size),
          rnd \in [1..latent_space_size -> NameSet], f \in Fit :
           /\ SectionsApply(tt, rnd)
           /\ cand_fit' = Append(cand_fit, f)
           /\ fitness_' =
                  IF Len(cand_fit') % population_size = 0
                  THEN Append(fitness_,
                              GenerationBest(cand_fit', population_size,
                                             Len(cand_fit')))
                  ELSE fitness_
    /\ UNCHANGED <<x, indexes_to_perturb, latent_space_size, optimize_all_dos,
                   section_population, best_names_, population_size,
                   what_from_who, cache_file, how_many, folder>>

\* _export_internal_results: np.argmin of an empty slice raises ValueError
ExportInternalResults ==
    /\ IF Len(fitness_) < 2
       THEN /\ raised' = "ValueError"
            /\ UNCHANGED best_names_
       ELSE /\ raised' = ""
            /\ best_names_' = names_[argmin(Tail(fitness_)) + 1]
    /\ last' = "_export_internal_results"
    /\ UNCHANGED <<t, x, x_adv, indexes_to_perturb, latent_space_size,
                   optimize_all_dos, section_population, names_, fitness_,
                   cand_fit, population_size, what_from_who, cache_file,
                   how_many, folder>>

SectionsNext ==
    \/ SectionsInitStartingPoint
    \/ ScoreBaseline
    \/ EvaluateCandidate
    \/ ExportInternalResults

SpecSections == SectionsConstruct /\ [][SectionsNext]_vars

\* C1: once best_names_ is non-empty, every apply_feasible_manipulations call
\* names section i best_names_[i], so the list it appends to names_ equals
\* best_names_.
NameContinuity ==
    [][(best_names_ # <<>> /\ Len(names_') = Len(names_) + 1)
          => names_'[Len(names_')] = best_names_]_vars

NameContinuityWitness ==
    /\ last = "apply_feasible_manipulations"
    /\ best_names_ # <<>>
    /\ Len(names_) >= 2
    /\ names_[Len(names_)] = best_names_
    /\ names_[1] # best_names_

\* C2: after _export_internal_results, best_names_ is the name list of the
\* winning candidate: a candidate of the generation with the first smallest
\* entry of the fitness history past index 0, whose fitness is that entry.
BestNamesOfWinner ==
    (last = "_export_internal_results" /\ raised = "") =>
        LET g == argmin(Tail(fitness_)) + 1
        IN  \E j \in ((g - 1) * population_size + 1)..(g * population_size) :
                /\ cand_fit[j] = fitness_[g + 1]
                /\ names_[j] = best_names_

(***************************************************************************)
(* CGammaEvasionProblem.create_section_population_from_folder              *)
(*                                                                         *)
(* A file of the folder is [name, is_pe, sections]: what magic.from_file   *)
(* says of it and the section table lief parses from it.                   *)
(***************************************************************************)
File(name, is_pe, sections) ==
    [name |-> name, is_pe |-> is_pe, sections |-> sections]

GoodwareFiles ==
    {File("a.exe", TRUE, <<Section(".text", <<1>>), Section(".data", <<2, 3>>),
                           Section(".rdata", <<4>>)>>),
     File("b.txt", FALSE, <<>>),
     File("c.dll", TRUE, <<Section(".data", <<>>),
                           Section(".rdata", <<5, 6, 7>>)>>),
     File("d.exe", TRUE, <<Section(".data", <<8, 9, 10>>)>>)}

\* the listings os.listdir can give: distinct files in any order
Folders ==
    {f \in UNION {[1..n -> GoodwareFiles] : n \in 0..MaxFiles} :
        \A i, j \in 1..Len(f) : i # j => f[i] # f[j]}

None == <<"None">>

ExtractChoices == {None, <<".data", ".rdata">>, <<".rdata">>}

\* size_lower_bound: 0 stands for None, both are false in the test of line 176
SizeChoices == {0, 2}

\* the file of the folder named who
FileNamed(dir, who) ==
    dir[CHOOSE i \in 1..Len(dir) : dir[i].name = who]

Elements(seq) == {seq[i] : i \in 1..Len(seq)}

\* the sections of one file that lines 174-182 append, in table order
Extracted(file, to_extract, size_lower_bound) ==
    SelectSeq(file.sections,
              LAMBDA sec :
                  /\ sec.name \in Elements(to_extract)
                  /\ ~(size_lower_bound # 0 /\ Len(sec.content) < size_lower_bound)
                  /\ Len(sec.content) # 0)

\* the loop of lines 168-184 over the first n names of file_to_consider:
\* <<section_population, what_from_who, whether the loop has left by break>>
RECURSIVE Scan(_, _, _, _, _, _)
Scan(dir, file_to_consider, to_extract, size_lower_bound, hm, n) ==
    IF n = 0 THEN <<<<>>, <<>>, FALSE>>
    ELSE LET before ==
                 Scan(dir, file_to_consider, to_extract, size_lower_bound, hm, n - 1)
             file == FileNamed(dir, file_to_consider[n])
             got == Extracted(file, to_extract, size_lower_bound)
         IN  IF before[3] \/ ~file.is_pe THEN before
             ELSE <<before[1] \o [k \in 1..Len(got) |-> got[k].content],
                    before[2] \o [k \in 1..Len(got) |-> <<got[k].name, file.name>>],
                    Len(before[2]) + Len(got) >= hm>>

\* create_section_population_from_folder:
\* <<section_population, what_from_who, content of the cache file afterwards>>
Harvest(dir, hm, sections_to_extract, cache, size_lower_bound, stored) ==
    LET to_extract ==
            IF sections_to_extract = None THEN <<".data">> ELSE sections_to_extract
        file_to_consider ==
            IF cache /\ stored # NoFile
            THEN [i \in 1..Len(stored) |-> stored[i][2]]
            ELSE [i \in 1..Len(dir) |-> dir[i].name]
        done == Scan(dir, file_to_consider, to_extract, size_lower_bound, hm,
                     Len(file_to_consider))
    IN  <<SubSeq(done[1], 1, Min(hm, Len(done[1]))),
          done[2],
          IF cache /\ stored = NoFile THEN done[2] ELSE stored>>

CorpusInit ==
    /\ folder \in Folders
    /\ cache_file = NoFile
    /\ section_population = <<>>
    /\ what_from_who = <<>>
    /\ how_many = 0
    /\ t = <<>>
    /\ x = <<>>
    /\ x_adv = <<>>
    /\ raised = ""
    /\ last = "__init__"
    /\ indexes_to_perturb = <<>>
    /\ latent_space_size = 0
    /\ optimize_all_dos = FALSE
    /\ names_ = <<>>
    /\ best_names_ = <<>>
    /\ fitness_ = <<>>
    /\ cand_fit = <<>>
    /\ population_size = 1

CreateSectionPopulationFromFolder ==
    \E hm \in 1..MaxHowMany, sections_to_extract \in ExtractChoices,
       cache \in BOOLEAN, size_lower_bound \in SizeChoices :
        LET res == Harvest(folder, hm, sections_to_extract, cache,
                           size_lower_bound, cache_file)
        IN  /\ how_many' = hm
            /\ section_population' = res[1]
            /\ what_from_who' = res[2]
            /\ cache_file' = res[3]
            /\ last' = "create_section_population_from_folder"
            /\ UNCHANGED <<t, x, x_adv, raised, indexes_to_perturb,
                           latent_space_size, optimize_all_dos, names_,
                           best_names_, fitness_, cand_fit, population_size,
                           folder>>

CorpusNext == CreateSectionPopulationFromFolder

SpecCorpus == CorpusInit /\ [][CorpusNext]_vars

\* the content of the section named what of the file named who
ContentOf(what, who) ==
    LET file == FileNamed(folder, who)
    IN  file.sections[CHOOSE k \in 1..Len(file.sections) :
                          file.sections[k].name = what].content

\* C10: the harvesting returns a section_population and a what_from_who of
\* the same length, at most how_many, with what_from_who[k] the (section
\* name, file name) section_population[k] was extracted from; the list it
\* writes to the cache file is that list.
HarvestParallel ==
    last = "create_section_population_from_folder" =>
        /\ Len(section_population) = Len(what_from_who)
        /\ Len(what_from_who) <= how_many
        /\ \A k \in 1..Len(section_population) :
               /\ k <= Len(what_from_who)
               /\ section_population[k] =
                      ContentOf(what_from_who[k][1], what_from_who[k][2])
        /\ cache_file = what_from_who =>
               Len(cache_file) = Len(section_population)

====
